---- MODULE Spec2Model ----
(***************************************************************************)
(* Model of the tic-tac-toe game component (frontend/app/index.tsx):       *)
(* the outcome evaluator checkWinner, the move selector getAIMove with its *)
(* three difficulties, and the React state container TicTacToeGame with    *)
(* its handlers handleCellPress, the AI setTimeout callback, resetGame,    *)
(* goToMenu, startGame and the difficulty selector.                        *)
(***************************************************************************)
EXTENDS Integers, Sequences, FiniteSets, TLC

(***************************************************************************)
(* Values.  A Player is 'X' | 'O' | null; null is the string "null".       *)
(***************************************************************************)
Cells == 0..8
Marks == {"X", "O"}
Player == {"X", "O", "null"}
Difficulty == {"easy", "medium", "hard"}
GameMode == {"menu", "pvp", "ai"}
Boards == [Cells -> Player]
EmptyBoard == [i \in Cells |-> "null"]

\* JavaScript's undefined, as it comes out of a read past the end of an array,
\* and the "no cell found" outcome of a search loop that ran to its end; both
\* are numbers outside 0..8 so that they compare with cell indices
Undefined == -2
NoCell == -1

\* -Infinity / Infinity of the minimax accumulators; every score is in -10..10
NegInfinity == -1000
PosInfinity == 1000

(***************************************************************************)
(* checkWinner                                                             *)
(***************************************************************************)
lines == << <<0, 1, 2>>, <<3, 4, 5>>, <<6, 7, 8>>,
            <<0, 3, 6>>, <<1, 4, 7>>, <<2, 5, 8>>,
            <<0, 4, 8>>, <<2, 4, 6>> >>

\* the condition of the if inside the for loop, for the line <<a, b, c>>
\* mutant: the condition without board[a] &&, three null cells match
LineCompleteNoTruthy(bd, line) ==
    /\ bd[line[1]] = bd[line[2]]
    /\ bd[line[1]] = bd[line[3]]

LineComplete(bd, line) ==
    /\ bd[line[1]] # "null"
    /\ bd[line[1]] = bd[line[2]]
    /\ bd[line[1]] = bd[line[3]]

\* the for loop over lines, from line number k on: the mark of the first
\* complete line, "none" when the loop runs to its end
RECURSIVE FirstLine(_, _)
FirstLine(bd, k) ==
    IF k > Len(lines) THEN "none"
    ELSE IF LineComplete(bd, lines[k]) THEN bd[lines[k][1]]
    ELSE FirstLine(bd, k + 1)

\* mutant: the full-board test runs before the loop over the lines
checkWinnerDrawFirst(bd) ==
    IF \A i \in Cells : bd[i] # "null" THEN "draw"
    ELSE LET w == FirstLine(bd, 1)
         IN  IF w # "none" THEN w ELSE "null"

\* mutant: board.some instead of board.every in the draw test
checkWinnerSomeDraw(bd) ==
    LET w == FirstLine(bd, 1)
    IN  IF w # "none" THEN w
        ELSE IF \E i \in Cells : bd[i] # "null" THEN "draw"
        ELSE "null"

\* mutant: the table of lines holds the three rows only
checkWinnerRowsOnly(bd) ==
    LET rows == {k \in 1..3 : LineComplete(bd, lines[k])}
    IN  IF rows # {}
        THEN bd[lines[CHOOSE k \in rows : \A j \in rows : k <= j][1]]
        ELSE IF \A i \in Cells : bd[i] # "null" THEN "draw"
        ELSE "null"

\* mutant: the table lists the rows from the bottom one up
checkWinnerBottomRowFirst(bd) ==
    LET order == <<3, 2, 1, 4, 5, 6, 7, 8>>
        hits  == {p \in 1..8 : LineComplete(bd, lines[order[p]])}
    IN  IF hits # {}
        THEN bd[lines[order[CHOOSE p \in hits : \A q \in hits : p <= q]][1]]
        ELSE IF \A i \in Cells : bd[i] # "null" THEN "draw"
        ELSE "null"

checkWinner(bd) ==
    LET w == FirstLine(bd, 1)
    IN  IF w # "none" THEN w
        ELSE IF \A i \in Cells : bd[i] # "null" THEN "draw"
        ELSE "null"

(***************************************************************************)
(* getAIMove                                                               *)
(***************************************************************************)
\* board.map((cell, index) => cell === null ? index : null).filter(...)
\* as the increasing sequence of the indices of the null cells
RECURSIVE emptyCellsFrom(_, _)
emptyCellsFrom(b, i) ==
    IF i > 8 THEN << >>
    ELSE IF b[i] = "null" THEN <<i>> \o emptyCellsFrom(b, i + 1)
    ELSE emptyCellsFrom(b, i + 1)

emptyCells(b) == emptyCellsFrom(b, 0)

\* arr[Math.floor(Math.random() * arr.length)]: any element of arr; on an
\* empty array the index is 0 and the read yields undefined
\* mutant: Math.ceil instead of Math.floor, an index in 1..arr.length
RandomPickCeil(arr) ==
    {arr[k] : k \in 2..Len(arr)} \cup {Undefined}

RandomPick(arr) ==
    IF Len(arr) = 0 THEN {Undefined} ELSE {arr[k] : k \in 1..Len(arr)}

\* first cell of cells (from position k) at which mark m makes checkWinner
\* report m; NoCell when the loop runs to its end
RECURSIVE FirstCompleting(_, _, _, _)
FirstCompleting(b, cells, k, m) ==
    IF k > Len(cells) THEN NoCell
    ELSE IF checkWinner([b EXCEPT ![cells[k]] = m]) = m THEN cells[k]
    ELSE FirstCompleting(b, cells, k + 1, m)

\* Math.max / Math.min folded over the scores of a for loop that starts from
\* bestScore = init
MaxOf(S, init) == CHOOSE x \in S \cup {init} : \A y \in S \cup {init} : y <= x
MinOf(S, init) == CHOOSE x \in S \cup {init} : \A y \in S \cup {init} : x <= y

\* minimax with its two for loops (i from 0 to 8): the board is written in
\* place and restored after each recursive call, so each call sees the board
\* with exactly one more mark
RECURSIVE minimax(_, _, _)
MaxLoop(bd, depth) ==
    MaxOf({minimax([bd EXCEPT ![i] = "O"], depth + 1, FALSE) :
              i \in {j \in Cells : bd[j] = "null"}}, NegInfinity)

MinLoop(bd, depth) ==
    MinOf({minimax([bd EXCEPT ![i] = "X"], depth + 1, TRUE) :
              i \in {j \in Cells : bd[j] = "null"}}, PosInfinity)

\* mutant: a win of X scored like a win of O
minimaxSignSlip(bd, depth, isMaximizing) ==
    LET result == checkWinner(bd)
    IN  IF result = "O" THEN 10 - depth
        ELSE IF result = "X" THEN 10 - depth
        ELSE IF result = "draw" THEN 0
        ELSE IF isMaximizing THEN MaxLoop(bd, depth)
        ELSE MinLoop(bd, depth)

minimax(bd, depth, isMaximizing) ==
    LET result == checkWinner(bd)
    IN  IF result = "O" THEN 10 - depth
        ELSE IF result = "X" THEN depth - 10
        ELSE IF result = "draw" THEN 0
        ELSE IF isMaximizing THEN MaxLoop(bd, depth)
        ELSE MinLoop(bd, depth)

\* the root loop of the hard branch: score > bestScore keeps the first best
\* mutant: score >= bestScore keeps the last best
RECURSIVE HardLoopLast(_, _, _, _, _)
HardLoopLast(b, cells, k, bestScore, bestMove) ==
    IF k > Len(cells) THEN bestMove
    ELSE LET score == minimax([b EXCEPT ![cells[k]] = "O"], 0, FALSE)
         IN  IF score >= bestScore
             THEN HardLoopLast(b, cells, k + 1, score, cells[k])
             ELSE HardLoopLast(b, cells, k + 1, bestScore, bestMove)

\* mutant: score < bestScore never replaces the initial best move
RECURSIVE HardLoopLess(_, _, _, _, _)
HardLoopLess(b, cells, k, bestScore, bestMove) ==
    IF k > Len(cells) THEN bestMove
    ELSE LET score == minimax([b EXCEPT ![cells[k]] = "O"], 0, FALSE)
         IN  IF score < bestScore
             THEN HardLoopLess(b, cells, k + 1, score, cells[k])
             ELSE HardLoopLess(b, cells, k + 1, bestScore, bestMove)

RECURSIVE HardLoop(_, _, _, _, _)
HardLoop(b, cells, k, bestScore, bestMove) ==
    IF k > Len(cells) THEN bestMove
    ELSE LET score == minimax([b EXCEPT ![cells[k]] = "O"], 0, FALSE)
         IN  IF score > bestScore
             THEN HardLoop(b, cells, k + 1, score, cells[k])
             ELSE HardLoop(b, cells, k + 1, bestScore, bestMove)

\* mutant: let bestScore = 0
HardMoveFromZero(b) ==
    LET cells == emptyCells(b)
    IN  HardLoop(b, cells, 1, 0,
                 IF Len(cells) = 0 THEN Undefined ELSE cells[1])

HardMove(b) ==
    LET cells == emptyCells(b)
    IN  HardLoop(b, cells, 1, NegInfinity,
                 IF Len(cells) = 0 THEN Undefined ELSE cells[1])

\* mutant: the blocking loop runs before the winning loop
getAIMoveBlockFirst(b, d) ==
    LET cells == emptyCells(b)
        win   == FirstCompleting(b, cells, 1, "O")
        block == FirstCompleting(b, cells, 1, "X")
        corners == SelectSeq(<<0, 2, 6, 8>>, LAMBDA i : b[i] = "null")
    IN  IF d = "easy" THEN RandomPick(cells)
        ELSE IF block # NoCell THEN {block}
        ELSE IF win # NoCell THEN {win}
        ELSE IF d = "medium" /\ b[4] = "null" THEN {4}
        ELSE IF d = "medium" /\ Len(corners) > 0 THEN RandomPick(corners)
        ELSE IF d = "hard" THEN {HardMove(b)}
        ELSE RandomPick(cells)

\* mutant: the blocking loop places 'O' like the winning loop
getAIMoveBlockWithO(b, d) ==
    LET cells == emptyCells(b)
        win   == FirstCompleting(b, cells, 1, "O")
        block == FirstCompleting(b, cells, 1, "O")
        corners == SelectSeq(<<0, 2, 6, 8>>, LAMBDA i : b[i] = "null")
    IN  IF d = "easy" THEN RandomPick(cells)
        ELSE IF win # NoCell THEN {win}
        ELSE IF block # NoCell THEN {block}
        ELSE IF d = "medium" /\ b[4] = "null" THEN {4}
        ELSE IF d = "medium" /\ Len(corners) > 0 THEN RandomPick(corners)
        ELSE IF d = "hard" THEN {HardMove(b)}
        ELSE RandomPick(cells)

\* mutant: the hard branch is never taken (difficulty compared with a
\* misspelt literal), so 'hard' falls through to the random pick
getAIMoveHardFallsThrough(b, d) ==
    LET cells == emptyCells(b)
        win   == FirstCompleting(b, cells, 1, "O")
        block == FirstCompleting(b, cells, 1, "X")
        corners == SelectSeq(<<0, 2, 6, 8>>, LAMBDA i : b[i] = "null")
    IN  IF d = "easy" THEN RandomPick(cells)
        ELSE IF win # NoCell THEN {win}
        ELSE IF block # NoCell THEN {block}
        ELSE IF d = "medium" /\ b[4] = "null" THEN {4}
        ELSE IF d = "medium" /\ Len(corners) > 0 THEN RandomPick(corners)
        ELSE RandomPick(cells)

\* mutant: the corners are tried before the center
getAIMoveCornersFirst(b, d) ==
    LET cells == emptyCells(b)
        win   == FirstCompleting(b, cells, 1, "O")
        block == FirstCompleting(b, cells, 1, "X")
        corners == SelectSeq(<<0, 2, 6, 8>>, LAMBDA i : b[i] = "null")
    IN  IF d = "easy" THEN RandomPick(cells)
        ELSE IF win # NoCell THEN {win}
        ELSE IF block # NoCell THEN {block}
        ELSE IF d = "medium" /\ Len(corners) > 0 THEN RandomPick(corners)
        ELSE IF d = "medium" /\ b[4] = "null" THEN {4}
        ELSE IF d = "hard" THEN {HardMove(b)}
        ELSE RandomPick(cells)

\* mutant: the first empty corner instead of a random one
getAIMoveFirstCorner(b, d) ==
    LET cells == emptyCells(b)
        win   == FirstCompleting(b, cells, 1, "O")
        block == FirstCompleting(b, cells, 1, "X")
        corners == SelectSeq(<<0, 2, 6, 8>>, LAMBDA i : b[i] = "null")
    IN  IF d = "easy" THEN RandomPick(cells)
        ELSE IF win # NoCell THEN {win}
        ELSE IF block # NoCell THEN {block}
        ELSE IF d = "medium" /\ b[4] = "null" THEN {4}
        ELSE IF d = "medium" /\ Len(corners) > 0 THEN {corners[1]}
        ELSE IF d = "hard" THEN {HardMove(b)}
        ELSE RandomPick(cells)

\* mutant: the easy branch comes after the winning and blocking loops
getAIMoveEasyAfterLoops(b, d) ==
    LET cells == emptyCells(b)
        win   == FirstCompleting(b, cells, 1, "O")
        block == FirstCompleting(b, cells, 1, "X")
        corners == SelectSeq(<<0, 2, 6, 8>>, LAMBDA i : b[i] = "null")
    IN  IF win # NoCell THEN {win}
        ELSE IF block # NoCell THEN {block}
        ELSE IF d = "easy" THEN RandomPick(cells)
        ELSE IF d = "medium" /\ b[4] = "null" THEN {4}
        ELSE IF d = "medium" /\ Len(corners) > 0 THEN RandomPick(corners)
        ELSE IF d = "hard" THEN {HardMove(b)}
        ELSE RandomPick(cells)

\* the set of values getAIMove(board, difficulty) can return
getAIMove(b, d) ==
    LET cells == emptyCells(b)
        win   == FirstCompleting(b, cells, 1, "O")
        block == FirstCompleting(b, cells, 1, "X")
        corners == SelectSeq(<<0, 2, 6, 8>>, LAMBDA i : b[i] = "null")
    IN  IF d = "easy" THEN RandomPick(cells)
        ELSE IF win # NoCell THEN {win}
        ELSE IF block # NoCell THEN {block}
        ELSE IF d = "medium" /\ b[4] = "null" THEN {4}
        ELSE IF d = "medium" /\ Len(corners) > 0 THEN RandomPick(corners)
        ELSE IF d = "hard" THEN {HardMove(b)}
        ELSE RandomPick(cells)

(***************************************************************************)
(* The component state (useState hooks) and the pending setTimeout         *)
(* callbacks.  ret is the outcome of the call in the specifications that   *)
(* call checkWinner or getAIMove directly: << >> before the call,          *)
(* <<"return", v>> once the call has returned v.                           *)
(***************************************************************************)
VARIABLES board, currentPlayer, gameMode, difficulty, winner, stats,
          gameCount, timers, ret, statsScreen

vars == <<board, currentPlayer, gameMode, difficulty, winner, stats,
          gameCount, timers, ret, statsScreen>>

\* the statistics screen (stats.tsx): its three fetchers, each with the
\* position of its async function, and its state as useState creates it
Fetchers == {"stats", "history", "leaderboard"}

InitialStatsScreen ==
    [pc          |-> [f \in Fetchers |-> "idle"],
     stats       |-> "null",
     gameHistory |-> << >>,
     leaderboard |-> << >>,
     loading     |-> TRUE]

\* bounds of the model
MaxGames == 1
MaxTimers == 1
MaxPendingEvents == 3

\* the difficulties offered in the specification of the interleavings; on a
\* board in progress every move of 'hard' is one of the moves of 'easy'
\* (an empty cell), and 'hard' has its own specification, SpecHard
InterleavedDifficulties == {"easy", "medium"}

\* the closure of a scheduled AI callback: the newBoard and difficulty of the
\* render in which the press was handled; events counts the UI events handled
\* since it was scheduled (the callback is due 500 ms after the press)
Timer(nb, d) == [newBoard |-> nb, difficulty |-> d, events |-> 0]

Aged(ts) == [k \in 1..Len(ts) |-> [ts[k] EXCEPT !.events = @ + 1]]

\* a UI event can still be handled before the oldest pending callback is due
UIEventPossible ==
    \A k \in 1..Len(timers) : timers[k].events < MaxPendingEvents

ZeroStats == [playerWins |-> 0, aiWins |-> 0, draws |-> 0]

updateStats(prev, w, mode) ==
    [playerWins |-> IF w = "X" THEN prev.playerWins + 1 ELSE prev.playerWins,
     aiWins     |-> IF w = "O" /\ mode = "ai" THEN prev.aiWins + 1 ELSE prev.aiWins,
     draws      |-> IF w = "draw" THEN prev.draws + 1 ELSE prev.draws]

Init ==
    /\ board = EmptyBoard
    /\ currentPlayer = "X"
    /\ gameMode = "menu"
    /\ difficulty = "medium"
    /\ winner = "null"
    /\ stats = ZeroStats
    /\ gameCount = 0
    /\ timers = << >>
    /\ ret = << >>
    /\ statsScreen = InitialStatsScreen

\* handleCellPress(index); the cells are rendered only outside the menu
HandleCellPress(index) ==
    /\ gameMode # "menu"
    /\ UIEventPossible
    /\ board[index] = "null"
    /\ winner = "null"
    /\ LET newBoard   == [board EXCEPT ![index] = currentPlayer]
           gameWinner == checkWinner(newBoard)
       IN  /\ board' = newBoard
           /\ IF gameWinner # "null"
              THEN /\ winner' = gameWinner
                   /\ stats' = updateStats(stats, gameWinner, gameMode)
                   /\ gameCount' = gameCount + 1
                   /\ timers' = Aged(timers)
                   /\ UNCHANGED currentPlayer
              ELSE IF gameMode = "ai" /\ currentPlayer = "X"
              THEN /\ Len(timers) < MaxTimers
                   /\ currentPlayer' = "O"
                   /\ timers' = Append(Aged(timers), Timer(newBoard, difficulty))
                   /\ UNCHANGED <<winner, stats, gameCount>>
              ELSE IF gameMode = "pvp"
              THEN /\ currentPlayer' = IF currentPlayer = "X" THEN "O" ELSE "X"
                   /\ timers' = Aged(timers)
                   /\ UNCHANGED <<winner, stats, gameCount>>
              ELSE /\ timers' = Aged(timers)
                   /\ UNCHANGED <<currentPlayer, winner, stats, gameCount>>
    /\ UNCHANGED <<gameMode, difficulty, ret>>
    /\ UNCHANGED statsScreen

\* the setTimeout callback of handleCellPress; callbacks of equal delay run
\* in the order in which they were scheduled.  updateStats is the one of the
\* render of the press, in which gameMode is 'ai'.
AITimer ==
    /\ timers # << >>
    /\ LET t == Head(timers)
       IN  \E aiMove \in getAIMove(t.newBoard, t.difficulty) :
             LET aiBoard  == IF aiMove \in Cells
                             THEN [t.newBoard EXCEPT ![aiMove] = "O"]
                             ELSE t.newBoard
                 aiWinner == checkWinner(aiBoard)
             IN  /\ board' = aiBoard
                 /\ IF aiMove \notin Cells
                    \* scaleValues[undefined].value throws after setBoard
                    THEN UNCHANGED <<winner, stats, gameCount, currentPlayer>>
                    ELSE IF aiWinner # "null"
                    THEN /\ winner' = aiWinner
                         /\ stats' = updateStats(stats, aiWinner, "ai")
                         /\ gameCount' = gameCount + 1
                         /\ UNCHANGED currentPlayer
                    ELSE /\ currentPlayer' = "X"
                         /\ UNCHANGED <<winner, stats, gameCount>>
    /\ timers' = Tail(timers)
    /\ UNCHANGED <<gameMode, difficulty, ret>>
    /\ UNCHANGED statsScreen

\* the state written by resetGame
ResetState ==
    /\ board' = EmptyBoard
    /\ currentPlayer' = "X"
    /\ winner' = "null"

\* NEW GAME button
ResetGame ==
    /\ gameMode # "menu"
    /\ UIEventPossible
    /\ gameCount < MaxGames
    /\ ResetState
    /\ timers' = Aged(timers)
    /\ UNCHANGED <<gameMode, difficulty, stats, gameCount, ret>>
    /\ UNCHANGED statsScreen

\* MENU button
GoToMenu ==
    /\ gameMode # "menu"
    /\ UIEventPossible
    /\ gameCount < MaxGames
    /\ ResetState
    /\ gameMode' = "menu"
    /\ timers' = Aged(timers)
    /\ UNCHANGED <<difficulty, stats, gameCount, ret>>
    /\ UNCHANGED statsScreen

\* the menu buttons call startGame('ai') and startGame('pvp'), without diff
StartGame(mode) ==
    /\ gameMode = "menu"
    /\ UIEventPossible
    /\ ResetState
    /\ gameMode' = mode
    /\ timers' = Aged(timers)
    /\ UNCHANGED <<difficulty, stats, gameCount, ret>>
    /\ UNCHANGED statsScreen

\* the difficulty selector, rendered in AI mode
SetDifficulty(diff) ==
    /\ gameMode = "ai"
    /\ UIEventPossible
    /\ difficulty' = diff
    /\ timers' = Aged(timers)
    /\ UNCHANGED <<board, currentPlayer, gameMode, winner, stats, gameCount, ret>>
    /\ UNCHANGED statsScreen

Next ==
    \/ \E index \in Cells : HandleCellPress(index)
    \/ AITimer
    \/ ResetGame
    \/ GoToMenu
    \/ \E mode \in {"ai", "pvp"} : StartGame(mode)
    \/ \E diff \in InterleavedDifficulties : SetDifficulty(diff)

Spec == Init /\ [][Next]_vars

(***************************************************************************)
(* SpecHard: one game in AI mode at difficulty 'hard' from the empty       *)
(* board, in which the human presses a cell only when no AI callback is    *)
(* pending, so that X and O alternate.                                     *)
(***************************************************************************)
InitHard ==
    /\ board = EmptyBoard
    /\ currentPlayer = "X"
    /\ gameMode = "ai"
    /\ difficulty = "hard"
    /\ winner = "null"
    /\ stats = ZeroStats
    /\ gameCount = 0
    /\ timers = << >>
    /\ ret = << >>
    /\ statsScreen = InitialStatsScreen

HumanMove(index) ==
    /\ timers = << >>
    /\ HandleCellPress(index)

NextHard ==
    \/ \E index \in Cells : HumanMove(index)
    \/ AITimer

SpecHard == InitHard /\ [][NextHard]_vars

(***************************************************************************)
(* SpecEval: checkWinner called once on an arbitrary 9-cell board.         *)
(***************************************************************************)
InitEval ==
    /\ board \in Boards
    /\ currentPlayer = "X"
    /\ gameMode = "menu"
    /\ difficulty = "medium"
    /\ winner = "null"
    /\ stats = ZeroStats
    /\ gameCount = 0
    /\ timers = << >>
    /\ ret = << >>
    /\ statsScreen = InitialStatsScreen

CallCheckWinner ==
    /\ ret = << >>
    /\ ret' = <<"return", checkWinner(board)>>
    /\ UNCHANGED <<board, currentPlayer, gameMode, difficulty, winner, stats,
                   gameCount, timers>>
    /\ UNCHANGED statsScreen

SpecEval == InitEval /\ [][CallCheckWinner]_vars

(***************************************************************************)
(* SpecSelect: getAIMove called once.  'easy' and 'medium' are called on   *)
(* every 9-cell board; the exhaustive search of 'hard' is called on the    *)
(* boards on which O is to move (one more X than O), which are the boards  *)
(* handleCellPress hands to it.                                            *)
(***************************************************************************)
Count(bd, m) == Cardinality({i \in Cells : bd[i] = m})

OToMove(bd) == Count(bd, "X") = Count(bd, "O") + 1

InitSelect ==
    /\ board \in Boards
    /\ difficulty \in Difficulty
    /\ difficulty = "hard" => OToMove(board)
    /\ currentPlayer = "O"
    /\ gameMode = "ai"
    /\ winner = "null"
    /\ stats = ZeroStats
    /\ gameCount = 0
    /\ timers = << >>
    /\ ret = << >>
    /\ statsScreen = InitialStatsScreen

CallGetAIMove ==
    /\ ret = << >>
    /\ \E aiMove \in getAIMove(board, difficulty) : ret' = <<"return", aiMove>>
    /\ UNCHANGED <<board, currentPlayer, gameMode, difficulty, winner, stats,
                   gameCount, timers>>
    /\ UNCHANGED statsScreen

SpecSelect == InitSelect /\ [][CallGetAIMove]_vars

(***************************************************************************)
(* Vocabulary of the properties                                            *)
(***************************************************************************)
Called == ret # << >>

\* the three cells of some line all hold mark m
HasLine(bd, m) == \E k \in 1..Len(lines) : \A j \in 1..3 : bd[lines[k][j]] = m

EmptyOf(bd) == {c \in Cells : bd[c] = "null"}

\* no completed line and at least one empty cell
InProgress(bd) == ~HasLine(bd, "X") /\ ~HasLine(bd, "O") /\ EmptyOf(bd) # {}

\* cell c is empty and a line through c has its two other cells holding m
Completes(bd, c, m) ==
    /\ bd[c] = "null"
    /\ \E k \in 1..Len(lines) :
         /\ \E j \in 1..3 : lines[k][j] = c
         /\ \A j \in 1..3 : lines[k][j] # c => bd[lines[k][j]] = m

WinningCells(bd, m) == {c \in Cells : Completes(bd, c, m)}

Lowest(S) == CHOOSE x \in S : \A y \in S : x <= y

\* the minimax value of every cell as a root move of O (position with O at
\* the cell, X to move, depth 0); NegInfinity - 1 marks an occupied cell
RECURSIVE RootScores(_, _)
RootScores(bd, c) ==
    IF c > 8 THEN << >>
    ELSE << IF bd[c] = "null" THEN minimax([bd EXCEPT ![c] = "O"], 0, FALSE)
            ELSE NegInfinity - 1 >> \o RootScores(bd, c + 1)

BestCellsOf(scores) ==
    {c \in Cells : \A c2 \in Cells : scores[c2 + 1] <= scores[c + 1]}

BestCells(bd) == BestCellsOf(RootScores(bd, 0))

(***************************************************************************)
(* C1 (SpecHard).  A game at difficulty 'hard' from the empty board in     *)
(* which X and O alternate never ends with winner 'X': the winner is 'O'   *)
(* or 'draw' once it is set.                                               *)
(***************************************************************************)
C1_HardNeverLoses == winner \in {"null", "O", "draw"}

C1_Witness == winner = "O" /\ gameCount = 1 /\ timers = << >>

(***************************************************************************)
(* C2 (SpecSelect), as stated: on every board in progress 'hard' returns   *)
(* the lowest-index empty cell among those with the highest minimax value. *)
(***************************************************************************)
C2_LowestBestCell ==
    (Called /\ difficulty = "hard" /\ InProgress(board))
        => ret[2] = Lowest(BestCells(board))

(***************************************************************************)
(* C2 (SpecSelect), amended: 'hard' returns an empty cell with the highest *)
(* minimax value; it is the lowest-index such cell, except on a board      *)
(* where O has no immediate winning cell and X has one, where it is the    *)
(* lowest-index cell at which X would complete a line.                     *)
(***************************************************************************)
C2_BestCellAfterPrechecks ==
    (Called /\ difficulty = "hard" /\ InProgress(board))
        => LET best == BestCells(board)
           IN  /\ ret[2] \in best
               /\ ret[2] = IF /\ WinningCells(board, "O") = {}
                              /\ WinningCells(board, "X") # {}
                           THEN Lowest(WinningCells(board, "X"))
                           ELSE Lowest(best)

C2_Witness ==
    /\ Called /\ difficulty = "hard" /\ InProgress(board)
    /\ WinningCells(board, "O") = {}
    /\ Cardinality(WinningCells(board, "X")) >= 2
    /\ ret[2] # Lowest(EmptyOf(board))
    /\ ret[2] = Lowest(WinningCells(board, "X"))

(***************************************************************************)
(* C3 (SpecSelect).  For every difficulty, on a board with no completed    *)
(* line and an empty cell, every value getAIMove can return is an index in *)
(* 0..8 of a cell that is empty on the input board.                        *)
(***************************************************************************)
C3_ReturnsEmptyCell ==
    (Called /\ InProgress(board))
        => ret[1] = "return" /\ ret[2] \in Cells /\ board[ret[2]] = "null"

C3_Witness ==
    /\ Called /\ InProgress(board) /\ difficulty = "medium"
    /\ board[4] # "null" /\ ret[2] = 8

(***************************************************************************)
(* C4 (SpecSelect).  Called on a board with no empty cell or with a        *)
(* completed line, getAIMove ends in an error (it throws) for every        *)
(* difficulty and returns nothing.                                         *)
(***************************************************************************)
C4_FailsFastOnTerminalBoard ==
    (Called /\ ~InProgress(board)) => ret[1] = "throw"

(***************************************************************************)
(* C5 (SpecEval).  On a board with a completed line, whatever the number   *)
(* of empty cells, checkWinner returns 'X' or 'O', and the mark it returns *)
(* has a completed line; it returns neither 'draw' nor null.               *)
(***************************************************************************)
C5_LineGivesItsMark ==
    (Called /\ (HasLine(board, "X") \/ HasLine(board, "O")))
        => ret[2] \in Marks /\ HasLine(board, ret[2])

C5_Witness ==
    /\ Called /\ HasLine(board, "O") /\ EmptyOf(board) = {} /\ ret[2] = "O"

(***************************************************************************)
(* C6 (SpecEval).  On a board with no completed line checkWinner returns   *)
(* 'draw' exactly when no cell is empty and null exactly when some cell is *)
(* empty.                                                                  *)
(***************************************************************************)
C6_DrawIffFull ==
    (Called /\ ~HasLine(board, "X") /\ ~HasLine(board, "O"))
        => /\ ret[2] = "draw" <=> EmptyOf(board) = {}
           /\ ret[2] = "null" <=> EmptyOf(board) # {}

C6_Witness ==
    /\ Called /\ ~HasLine(board, "X") /\ ~HasLine(board, "O")
    /\ Count(board, "X") = 1 /\ Count(board, "O") = 0 /\ ret[2] = "null"

(***************************************************************************)
(* C7 (Spec).  In AI mode, while the AI's reply to an accepted human move  *)
(* is pending, a press on a cell changes neither the board, nor winner,    *)
(* nor the statistics counters.                                            *)
(***************************************************************************)
AwaitingAIMove ==
    /\ gameMode = "ai"
    /\ winner = "null"
    /\ currentPlayer = "O"
    /\ timers # << >>

C7_NoPressWhileAIPending ==
    [][(AwaitingAIMove /\ \E index \in Cells : HandleCellPress(index))
          => UNCHANGED <<board, winner, stats, gameCount>>]_vars

(***************************************************************************)
(* C8 (Spec).  Once winner is non-null, no cell press and no AI timer      *)
(* callback changes the board.                                             *)
(***************************************************************************)
C8_BoardFrozenOnceTerminal ==
    [][(winner # "null" /\ (AITimer \/ \E index \in Cells : HandleCellPress(index)))
          => board' = board]_vars

(***************************************************************************)
(* C9 (Spec).  In every reachable state the number of X cells equals the   *)
(* number of O cells or exceeds it by exactly one.                         *)
(***************************************************************************)
C9_MarkBalance ==
    \/ Count(board, "X") = Count(board, "O")
    \/ Count(board, "X") = Count(board, "O") + 1

(***************************************************************************)
(* C10 (SpecSelect).  For 'medium', on a board in progress where some      *)
(* empty cell completes a line for O, getAIMove returns a cell that        *)
(* completes a line for O, also when X has an immediate winning cell.      *)
(***************************************************************************)
C10_MediumTakesWin ==
    (Called /\ difficulty = "medium" /\ InProgress(board)
            /\ WinningCells(board, "O") # {})
        => ret[2] \in WinningCells(board, "O")

C10_Witness ==
    /\ Called /\ difficulty = "medium"
    /\ board = [c \in Cells |-> IF c \in {0, 1} THEN "O"
                                ELSE IF c \in {3, 4} THEN "X" ELSE "null"]
    /\ WinningCells(board, "X") = {5}
    /\ ret[2] = 2

(***************************************************************************)
(* C11 (SpecSelect).  For 'medium', on a board in progress where no empty  *)
(* cell wins for O but some empty cell would complete a line for X,        *)
(* getAIMove returns a cell at which X would complete a line.              *)
(***************************************************************************)
C11_MediumBlocks ==
    (Called /\ difficulty = "medium" /\ InProgress(board)
            /\ WinningCells(board, "O") = {}
            /\ WinningCells(board, "X") # {})
        => ret[2] \in WinningCells(board, "X")

C11_Witness ==
    /\ Called /\ difficulty = "medium"
    /\ board = [c \in Cells |-> IF c \in {0, 1} THEN "X" ELSE "null"]
    /\ ret[2] = 2

(***************************************************************************)
(* SpecRepeat: getAIMove called twice with 'hard' on the same board; ret   *)
(* holds the outcome of the first call followed by that of the second.     *)
(***************************************************************************)
InitRepeat ==
    /\ InitSelect
    /\ difficulty = "hard"

CallGetAIMoveAgain ==
    /\ Len(ret) = 2
    /\ \E aiMove \in getAIMove(board, difficulty) :
         ret' = ret \o <<"return", aiMove>>
    /\ UNCHANGED <<board, currentPlayer, gameMode, difficulty, winner, stats,
                   gameCount, timers>>
    /\ UNCHANGED statsScreen

NextRepeat ==
    \/ CallGetAIMove
    \/ CallGetAIMoveAgain

SpecRepeat == InitRepeat /\ [][NextRepeat]_vars

(***************************************************************************)
(* C12 (SpecRepeat).  For a fixed board with an empty cell, two runs of    *)
(* getAIMove(board, 'hard') return the same index.                         *)
(***************************************************************************)
C12_HardDeterministic ==
    (Len(ret) = 4 /\ EmptyOf(board) # {}) => ret[4] = ret[2]

C12_Witness ==
    /\ Len(ret) = 4 /\ InProgress(board)
    /\ WinningCells(board, "O") = {} /\ WinningCells(board, "X") = {}
    /\ Cardinality(EmptyOf(board)) = 8
    /\ ret[2] \in Cells /\ ret[4] = ret[2]

(***************************************************************************)
(* SpecCenter: a 'hard' game in which the human opens at the center and    *)
(* afterwards presses only cells whose minimax value (the AI to move next) *)
(* is the least among the empty cells.                                     *)
(***************************************************************************)
CenterCell == 4

MaxCenterGames == 2

\* the minimax value of every cell as a move of X (position with X at the
\* cell, O to move, depth 0); PosInfinity + 1 marks an occupied cell
RECURSIVE ValuesAfterX(_, _)
ValuesAfterX(bd, c) ==
    IF c > 8 THEN << >>
    ELSE << IF bd[c] = "null" THEN minimax([bd EXCEPT ![c] = "X"], 0, TRUE)
            ELSE PosInfinity + 1 >> \o ValuesAfterX(bd, c + 1)

MinimizingCellsOf(values) ==
    {c \in Cells : \A c2 \in Cells : values[c + 1] <= values[c2 + 1]}

MinimizingCells(bd) == MinimizingCellsOf(ValuesAfterX(bd, 0))

OptimalHumanMove ==
    /\ timers = << >>
    /\ winner = "null"
    /\ \E index \in (IF board = EmptyBoard THEN {CenterCell}
                     ELSE MinimizingCells(board)) :
         HumanMove(index)

\* NEW GAME pressed once the game is over
NewGameAfterEnd ==
    /\ winner # "null"
    /\ gameCount < MaxCenterGames
    /\ ResetState
    /\ UNCHANGED <<gameMode, difficulty, stats, gameCount, timers, ret>>
    /\ UNCHANGED statsScreen

NextCenter ==
    \/ OptimalHumanMove
    \/ AITimer
    \/ NewGameAfterEnd

SpecCenter == InitHard /\ [][NextCenter]_vars

(***************************************************************************)
(* C13 (SpecCenter).  With X opening at the center, O playing              *)
(* getAIMove(.., 'hard') and X playing value-minimizing moves, no line is  *)
(* ever completed, the recorded winner is never a player, and the game is  *)
(* over exactly when checkWinner is 'draw'.                                *)
(***************************************************************************)
C13_CenterGameDraws ==
    /\ checkWinner(board) \in {"null", "draw"}
    /\ winner \in {"null", "draw"}
    /\ (winner = "null" /\ timers = << >>) => checkWinner(board) = "null"

C13_Witness ==
    /\ board[CenterCell] = "X"
    /\ checkWinner(board) = "draw"
    /\ winner = "draw"

(***************************************************************************)
(* SpecFrame: getAIMove run on arrays held by reference.  The store holds  *)
(* the array passed in ("input") and the array of the current              *)
(* const testBoard ("test"); every assignment board[i] = v or              *)
(* testBoard[cell] = v is a write to the array its variable refers to.     *)
(***************************************************************************)
Store(h, ref, i, v) == [h EXCEPT ![ref][i] = v]

\* mutant: const testBoard = board binds testBoard to the input array
SpreadAlias(h) == [heap |-> h, ref |-> "input"]

\* const testBoard = [...board]: a fresh array holding the cells of the input
Spread(h) == [heap |-> [h EXCEPT !.test = h.input], ref |-> "test"]

\* the winning / blocking loop from position k of cells with mark m
RECURSIVE CompletingLoopRun(_, _, _, _)
CompletingLoopRun(h, cells, k, m) ==
    IF k > Len(cells) THEN [found |-> FALSE, heap |-> h]
    ELSE LET s  == Spread(h)
             h1 == Store(s.heap, s.ref, cells[k], m)
         IN  IF checkWinner(h1[s.ref]) = m THEN [found |-> TRUE, heap |-> h1]
             ELSE CompletingLoopRun(h1, cells, k + 1, m)

\* the least index from i on whose test board[j] === null succeeds
NextNull(a, i) ==
    CHOOSE j \in i..8 : a[j] = "null" /\ \A n \in i..(j - 1) : a[n] # "null"

\* the array a call of minimax leaves behind.  The writes of minimax do not
\* depend on the scores (every empty cell is tried, with no cut-off), so the
\* scores, which minimax(bd, depth, isMaximizing) gives, are not carried here
RECURSIVE minimaxRun(_, _)
RECURSIVE minimaxLoopRun(_, _, _)
\* the iterations of for (let i = 0; i < 9; i++) from i on: board[j] = mark,
\* the recursive call on the same array, board[j] = null
minimaxLoopRun(a, isMaximizing, i) ==
    IF \A j \in i..8 : a[j] # "null" THEN a
    ELSE minimaxLoopRun(
             [minimaxRun([a EXCEPT ![NextNull(a, i)] =
                              IF isMaximizing THEN "O" ELSE "X"],
                         ~isMaximizing)
                 EXCEPT ![NextNull(a, i)] = "null"],
             isMaximizing, NextNull(a, i) + 1)

minimaxRun(a, isMaximizing) ==
    IF checkWinner(a) # "null" THEN a ELSE minimaxLoopRun(a, isMaximizing, 0)

\* the root loop of the hard branch from position k of cells: testBoard is
\* written at cells[k] and handed to minimax, which works on that same array
RECURSIVE HardLoopRun(_, _, _)
HardLoopRun(h, cells, k) ==
    IF k > Len(cells) THEN h
    ELSE LET s == Spread(h)
         IN  HardLoopRun([s.heap EXCEPT ![s.ref] =
                              minimaxRun([@ EXCEPT ![cells[k]] = "O"], FALSE)],
                         cells, k + 1)

\* the store when getAIMove(b, d) returns
getAIMoveRun(b, d) ==
    LET h0    == [input |-> b, test |-> b]
        cells == emptyCells(b)
        win   == CompletingLoopRun(h0, cells, 1, "O")
        block == CompletingLoopRun(win.heap, cells, 1, "X")
    IN  IF d = "easy" THEN h0
        ELSE IF win.found THEN win.heap
        ELSE IF block.found THEN block.heap
        ELSE IF d = "hard" THEN HardLoopRun(block.heap, cells, 1)
        ELSE block.heap

CallGetAIMoveInPlace ==
    /\ ret = << >>
    /\ \E aiMove \in getAIMove(board, difficulty) : ret' = <<"return", aiMove>>
    /\ board' = getAIMoveRun(board, difficulty).input
    /\ UNCHANGED <<currentPlayer, gameMode, difficulty, winner, stats,
                   gameCount, timers>>
    /\ UNCHANGED statsScreen

SpecFrame == InitSelect /\ [][CallGetAIMoveInPlace]_vars

(***************************************************************************)
(* C14 (SpecFrame).  A call of getAIMove, at any difficulty, leaves every  *)
(* cell of the array passed in as it was at the call.                      *)
(***************************************************************************)
C14_InputBoardUnchanged == [][board' = board]_vars

C14_Witness ==
    /\ Called /\ difficulty = "hard" /\ ret[2] \in Cells
    /\ WinningCells(board, "O") = {} /\ WinningCells(board, "X") = {}
    /\ Cardinality(EmptyOf(board)) = 8

(***************************************************************************)
(* SpecStats: the statistics screen from its mount.  The effect starts the *)
(* three fetchers; each awaits fetch, which rejects or resolves with a     *)
(* response that is ok or not, and on an ok response awaits                *)
(* response.json(), which rejects or resolves with the body.  pc[f] is     *)
(* where fetcher f is: "idle", "awaitFetch", "awaitJson", or returned      *)
(* after the set call ("set"), past the if ("notOk"), or through the       *)
(* catch ("caught").                                                       *)
(***************************************************************************)
StatsBodies == {"null", "playerStats"}
ListBodies  == {<< >>, <<"row">>}

Bodies(f) == IF f = "stats" THEN StatsBodies ELSE ListBodies

Settled == {"set", "notOk", "caught"}

\* setStats(data) / setGameHistory(data) / setLeaderboard(data)
SetData(s, f, data) ==
    CASE f = "stats"       -> [s EXCEPT !.stats = data]
      [] f = "history"     -> [s EXCEPT !.gameHistory = data]
      [] f = "leaderboard" -> [s EXCEPT !.leaderboard = data]

\* mutant: setLoading(false) after setLeaderboard(data) inside the try
FinallyInTry(s, f, exit) ==
    IF f = "leaderboard" /\ exit = "set" THEN [s EXCEPT !.loading = FALSE] ELSE s

\* the end of fetcher f, left at exit: only fetchLeaderboard has a finally
\* clause, setLoading(false)
Finally(s, f, exit) ==
    IF f = "leaderboard" THEN [s EXCEPT !.loading = FALSE] ELSE s

Return(s, f, exit) == Finally([s EXCEPT !.pc[f] = exit], f, exit)

\* useEffect(() => { fetchPlayerStats(); fetchGameHistory();
\* fetchLeaderboard(); }, []): each runs up to its await fetch(...)
MountEffect ==
    /\ \A f \in Fetchers : statsScreen.pc[f] = "idle"
    /\ statsScreen' = [statsScreen EXCEPT !.pc = [f \in Fetchers |-> "awaitFetch"]]
    /\ UNCHANGED <<board, currentPlayer, gameMode, difficulty, winner, stats,
                   gameCount, timers, ret>>

\* await fetch(...) settles: rejected, or a response with ok true or false
FetchSettles(f, outcome) ==
    /\ statsScreen.pc[f] = "awaitFetch"
    /\ statsScreen' =
         CASE outcome = "rejected" -> Return(statsScreen, f, "caught")
           [] outcome = "notOk"    -> Return(statsScreen, f, "notOk")
           [] outcome = "ok"       -> [statsScreen EXCEPT !.pc[f] = "awaitJson"]
    /\ UNCHANGED <<board, currentPlayer, gameMode, difficulty, winner, stats,
                   gameCount, timers, ret>>

\* await response.json() rejects
JsonRejects(f) ==
    /\ statsScreen.pc[f] = "awaitJson"
    /\ statsScreen' = Return(statsScreen, f, "caught")
    /\ UNCHANGED <<board, currentPlayer, gameMode, difficulty, winner, stats,
                   gameCount, timers, ret>>

\* await response.json() resolves with data
JsonResolves(f, data) ==
    /\ statsScreen.pc[f] = "awaitJson"
    /\ statsScreen' = Return(SetData(statsScreen, f, data), f, "set")
    /\ UNCHANGED <<board, currentPlayer, gameMode, difficulty, winner, stats,
                   gameCount, timers, ret>>

NextStats ==
    \/ MountEffect
    \/ \E f \in Fetchers, outcome \in {"rejected", "notOk", "ok"} :
         FetchSettles(f, outcome)
    \/ \E f \in Fetchers : JsonRejects(f)
    \/ \E f \in Fetchers : \E data \in Bodies(f) : JsonResolves(f, data)

SpecStats == Init /\ [][NextStats]_vars

(***************************************************************************)
(* C16 (SpecStats).  Whatever the outcomes of the three initial fetches,   *)
(* loading is false once fetchLeaderboard has settled, and each of stats,  *)
(* gameHistory and leaderboard whose fetcher has not set it holds its      *)
(* initial value (null or []).                                             *)
(***************************************************************************)
C16_FailedFetchesKeepEmptyState ==
    /\ statsScreen.pc["leaderboard"] \in Settled => statsScreen.loading = FALSE
    /\ statsScreen.pc["stats"] # "set" => statsScreen.stats = "null"
    /\ statsScreen.pc["history"] # "set" => statsScreen.gameHistory = << >>
    /\ statsScreen.pc["leaderboard"] # "set" => statsScreen.leaderboard = << >>

C16_Witness ==
    /\ statsScreen.pc = [f \in Fetchers |->
                            IF f = "stats" THEN "notOk" ELSE "caught"]
    /\ statsScreen.loading = FALSE
    /\ statsScreen.stats = "null"
    /\ statsScreen.gameHistory = << >>
    /\ statsScreen.leaderboard = << >>

(***************************************************************************)
(* C17 (Spec).  In every reachable state winner equals checkWinner(board). *)
(***************************************************************************)
C17_WinnerIsCheckWinner == winner = checkWinner(board)

(***************************************************************************)
(* C18 (Spec).  While the board is all-empty, as resetGame leaves it, an   *)
(* AI timer callback does not change it: a move scheduled before the reset *)
(* is not applied after it.                                                *)
(***************************************************************************)
C18_BoardStaysEmptyAfterReset ==
    [][(board = EmptyBoard /\ AITimer) => board' = EmptyBoard]_vars

(***************************************************************************)
(* C20 (Spec).  In AI mode, from an accepted human move that leaves the    *)
(* board in progress until the AI timer callback it scheduled has run,     *)
(* currentPlayer is 'O'.                                                   *)
(***************************************************************************)
C20_OToMoveUntilCallback ==
    (gameMode = "ai" /\ timers # << >>) => currentPlayer = "O"

(***************************************************************************)
(* C19 (SpecSelect).  On a board in progress with O to move, the cell      *)
(* returned for 'hard' has the greatest value among the empty cells, the   *)
(* value of a cell being that of the position with O on it, X to move, at  *)
(* depth 0, where a position with a line of O at depth d is worth 10 - d,  *)
(* one with a line of X d - 10, a full board without a line 0, and any     *)
(* other the greatest (O to move) or least (X to move) value of its        *)
(* successors at depth d + 1.                                              *)
(***************************************************************************)
RECURSIVE PositionValue(_, _, _)
PositionValue(bd, d, oToMove) ==
    IF HasLine(bd, "O") THEN 10 - d
    ELSE IF HasLine(bd, "X") THEN d - 10
    ELSE IF EmptyOf(bd) = {} THEN 0
    ELSE IF oToMove
    THEN MaxOf({PositionValue([bd EXCEPT ![c] = "O"], d + 1, FALSE) : c \in EmptyOf(bd)},
               NegInfinity)
    ELSE MinOf({PositionValue([bd EXCEPT ![c] = "X"], d + 1, TRUE) : c \in EmptyOf(bd)},
               PosInfinity)

CellValue(bd, c) == PositionValue([bd EXCEPT ![c] = "O"], 0, FALSE)

C19_HardAttainsMaximum ==
    (Called /\ difficulty = "hard" /\ InProgress(board))
        => /\ ret[2] \in EmptyOf(board)
           /\ LET returned == CellValue(board, ret[2])
              IN  \A c \in EmptyOf(board) : CellValue(board, c) <= returned

\* no cell wins or blocks at once, so the search decides, and some cell is
\* worth less than the returned one
C19_Witness ==
    /\ Called /\ difficulty = "hard" /\ InProgress(board)
    /\ WinningCells(board, "O") = {} /\ WinningCells(board, "X") = {}
    /\ \E c \in EmptyOf(board) : CellValue(board, c) < CellValue(board, ret[2])

(***************************************************************************)
(* C21 (Spec).  The board of every scheduled AI callback, the one it       *)
(* passes to getAIMove, has no completed line and has an empty cell, under *)
(* every interleaving of presses, callbacks and resets.                    *)
(***************************************************************************)
C21_AICalledOnBoardInProgress ==
    \A k \in 1..Len(timers) : InProgress(timers[k].newBoard)

\* a callback is pending whose board is in progress while the game on
\* screen is already decided
C21_Witness ==
    /\ timers # << >>
    /\ winner # "null"
    /\ board # timers[1].newBoard
    /\ InProgress(timers[1].newBoard)

(***************************************************************************)
(* C22 (Spec).  In pvp mode the turn changes hands only by an accepted     *)
(* press or a reset, so that the marks of successive accepted presses      *)
(* alternate: no other step changes currentPlayer.                         *)
(***************************************************************************)
C22_PvpTurnChangesOnlyByPress ==
    [][(gameMode = "pvp" /\ gameMode' = "pvp" /\ currentPlayer' # currentPlayer)
          => (ResetGame \/ \E index \in Cells : HandleCellPress(index))]_vars

(***************************************************************************)
(* C23 (SpecSelect).  For 'medium', on a board in progress where neither   *)
(* O nor X has a cell that completes a line, getAIMove returns 4 when cell *)
(* 4 is empty.                                                             *)
(***************************************************************************)
NoImmediateWin(bd) == WinningCells(bd, "O") = {} /\ WinningCells(bd, "X") = {}

C23_MediumTakesCenter ==
    (Called /\ difficulty = "medium" /\ InProgress(board)
            /\ NoImmediateWin(board) /\ board[4] = "null")
        => ret[2] = 4

C23_Witness ==
    /\ Called /\ difficulty = "medium"
    /\ board = [c \in Cells |-> IF c = 0 THEN "X" ELSE "null"]
    /\ ret[2] = 4

(***************************************************************************)
(* C24 (SpecSelect).  For 'medium', on a board in progress where neither   *)
(* side has a cell that completes a line and cell 4 is occupied, the       *)
(* values getAIMove can return are exactly the empty corners when there is *)
(* one, and exactly the empty cells when there is none; the returned value *)
(* is one of them.                                                         *)
(***************************************************************************)
EmptyCorners(bd) == EmptyOf(bd) \cap {0, 2, 6, 8}

MediumChoices(bd) ==
    IF EmptyCorners(bd) # {} THEN EmptyCorners(bd) ELSE EmptyOf(bd)

C24_MediumCornersThenAny ==
    (difficulty = "medium" /\ InProgress(board)
            /\ NoImmediateWin(board) /\ board[4] # "null")
        => /\ getAIMove(board, difficulty) = MediumChoices(board)
           /\ Called => ret[2] \in MediumChoices(board)

\* several corners are empty and the one returned is not the first
C24_Witness ==
    /\ Called /\ difficulty = "medium" /\ InProgress(board)
    /\ NoImmediateWin(board) /\ board[4] # "null"
    /\ Cardinality(EmptyCorners(board)) >= 2
    /\ ret[2] \in EmptyCorners(board)
    /\ ret[2] # Lowest(EmptyCorners(board))

(***************************************************************************)
(* C25 (SpecSelect).  For 'easy', on every board with an empty cell the    *)
(* values getAIMove can return are exactly the empty cells, also where a   *)
(* cell wins for O or blocks X; the returned value is one of them.         *)
(***************************************************************************)
C25_EasyAnyEmptyCell ==
    (difficulty = "easy" /\ EmptyOf(board) # {})
        => /\ getAIMove(board, difficulty) = EmptyOf(board)
           /\ Called => ret[2] \in EmptyOf(board)

\* a cell wins for O, another blocks X, and the returned cell does neither
C25_Witness ==
    /\ Called /\ difficulty = "easy" /\ InProgress(board)
    /\ WinningCells(board, "O") # {} /\ WinningCells(board, "X") # {}
    /\ ret[2] \in EmptyOf(board)
    /\ ret[2] \notin WinningCells(board, "O") \cup WinningCells(board, "X")

(***************************************************************************)
(* C26 (Spec).  No reachable board holds a completed line of X together    *)
(* with a completed line of O, in pvp and in AI mode and under every       *)
(* interleaving of presses, AI timer callbacks and resets.                 *)
(***************************************************************************)
C26_NoDoubleWin == ~(HasLine(board, "X") /\ HasLine(board, "O"))

\* a line of O completed by presses while the AI callback is still pending
C26_Witness ==
    /\ HasLine(board, "O") /\ ~HasLine(board, "X")
    /\ winner = "O"
    /\ timers # << >>

(***************************************************************************)
(* C27 (Spec).  Once winner is set, and until the next reset clears it,    *)
(* no step changes gameCount or the counters of stats: updateStats runs at *)
(* most once in a game.                                                    *)
(***************************************************************************)
C27_StatsUpdatedOncePerGame ==
    [][winner # "null" => UNCHANGED <<stats, gameCount>>]_vars

(***************************************************************************)
(* C28 (SpecEval).  On a board with a completed line of each mark,         *)
(* checkWinner returns the mark of the completed line that comes first in  *)
(* the order rows 0-1-2, 3-4-5, 6-7-8, columns 0-3-6, 1-4-7, 2-5-8,        *)
(* diagonals 0-4-8, 2-4-6; and on a full board with a completed line it    *)
(* returns a mark, not 'draw'.                                             *)
(***************************************************************************)
LineOrder ==
    << {0, 1, 2}, {3, 4, 5}, {6, 7, 8},
       {0, 3, 6}, {1, 4, 7}, {2, 5, 8},
       {0, 4, 8}, {2, 4, 6} >>

Filled(bd, k, m) == \A c \in LineOrder[k] : bd[c] = m

FirstFilled(bd) ==
    CHOOSE k \in 1..8 :
        /\ Filled(bd, k, "X") \/ Filled(bd, k, "O")
        /\ \A j \in 1..(k - 1) : ~Filled(bd, j, "X") /\ ~Filled(bd, j, "O")

C28_FirstLineInTableOrder ==
    /\ (Called /\ HasLine(board, "X") /\ HasLine(board, "O"))
          => Filled(board, FirstFilled(board), ret[2])
    /\ (Called /\ EmptyOf(board) = {} /\ (HasLine(board, "X") \/ HasLine(board, "O")))
          => ret[2] \in {"X", "O"}

\* the rows of both marks are complete; the first in the table is O's
C28_Witness ==
    /\ Called
    /\ Filled(board, 1, "O") /\ Filled(board, 3, "X")
    /\ EmptyOf(board) = {}
    /\ ret[2] = "O"
====
